---- MODULE Spec2Model ----
(***************************************************************************)
(* One interview session of the AI interviewer backend: the Session Record *)
(* (backend/models/session.py), its worker loop                            *)
(* (backend/services/session_processor.py) and the connection handler that *)
(* feeds it (backend/routes/websocket.py).                                 *)
(*                                                                         *)
(* Time is counted in tenths of a second (the worker's tick, sleep(0.1),   *)
(* is one unit).  A text is the sequence of its whitespace-separated words *)
(* and a word is held character by character, so that lower(),             *)
(* strip(".,!?") and len() are computed on the characters.                 *)
(* The two text buffers are held as the interval [from, to) of the stream  *)
(* of all characters ever appended to them: appending moves `to`, cutting  *)
(* to a trailing slice moves `from`.                                       *)
(***************************************************************************)
EXTENDS Integers, Sequences, FiniteSets, TLC

\* ------------------------------------------------------------ constants

\* time.time() is read in tenths of a second
TicksPerSecond == 10

ContextCap == 5000
ContextKeep == 3000
TranscriptCap == 3000
TranscriptKeep == 2000
OcrWindow == 5
MinAudioBytes == 1000
ResponseCooldown == 15
RepromptGate == 5
IntroLength == 50
QuestionCooldown == 5
MaxQuestions == 5
SpeechPause == 5
MinContent == 200
SpeechDecay == 3
GraceSleep == 2
ResponseSleep == 1
BackoffSleep == 1
EvalPeriod == 60

\* is_duplicate: similarity > 0.8, as the fraction SimNum / SimDen
SimNum == 8
SimDen == 10

Secs(n) == n * TicksPerSecond

\* ------------------------------------------------------------ characters

Punct == {".", ",", "!", "?"}

\* str.lower() on the letters the inputs use
LowerChar(c) ==
    CASE c = "A" -> "a" [] c = "I" -> "i" [] c = "M" -> "m" [] c = "N" -> "n"
      [] c = "P" -> "p" [] c = "R" -> "r" [] c = "S" -> "s" [] c = "B" -> "b"
      [] c = "C" -> "c" [] c = "D" -> "d" [] c = "E" -> "e" [] c = "F" -> "f"
      [] OTHER -> c

\* A word is [head, run]: the characters of head followed by run further
\* characters "z", so that a long word is held in a few cells
W(chars) == [head |-> chars, run |-> 0]

\* a word of n characters
Filler(n) == [head |-> <<>>, run |-> n]

EmptyWord == W(<<>>)

\* len(word)
WordLen(w) == Len(w.head) + w.run

\* word.lower()
Lower(w) == [w EXCEPT !.head = [i \in 1..Len(@) |-> LowerChar(@[i])]]

RECURSIVE LStripChars(_)
LStripChars(cs) ==
    IF cs # <<>> /\ Head(cs) \in Punct THEN LStripChars(Tail(cs)) ELSE cs

RECURSIVE RStripChars(_)
RStripChars(cs) ==
    IF cs # <<>> /\ cs[Len(cs)] \in Punct
    THEN RStripChars(SubSeq(cs, 1, Len(cs) - 1))
    ELSE cs

\* str.lstrip(".,!?"), str.rstrip(".,!?")
LStrip(w) == [w EXCEPT !.head = LStripChars(@)]
RStrip(w) == IF w.run > 0 THEN w ELSE [w EXCEPT !.head = RStripChars(@)]

\* str.strip(".,!?"): the punctuation characters are removed from both ends
StripPunct(w) == RStrip(LStrip(w))

\* " ".join(words).strip(".,!?"), as the words of the result: a blank stops
\* the stripping, so only the first and the last word lose characters
JoinStrip(words) ==
    IF words = <<>> THEN <<>>
    ELSE IF Len(words) = 1
    THEN (IF StripPunct(words[1]) = EmptyWord THEN <<>> ELSE <<StripPunct(words[1])>>)
    ELSE [i \in 1..Len(words) |->
            IF i = 1 THEN LStrip(words[i])
            ELSE IF i = Len(words) THEN RStrip(words[i])
            ELSE words[i]]

\* len(text.strip()) of a text given by its words
RECURSIVE TextLen(_)
TextLen(words) ==
    IF words = <<>> THEN 0
    ELSE IF Len(words) = 1 THEN WordLen(words[1])
    ELSE WordLen(words[1]) + 1 + TextLen(Tail(words))

\* `sub in text.lower()` for a pattern of letters other than "z" and without
\* blanks: it lies within the head of one word
Contains(w, sub) ==
    \E i \in 1..(Len(w.head) - Len(sub) + 1) :
        Lower(W(SubSeq(w.head, i, i + Len(sub) - 1))) = W(sub)

InText(words, sub) == \E i \in 1..Len(words) : Contains(words[i], sub)

\* word.lower() in markers
LowerIn(w, markers) == \E m \in markers : Lower(w) = W(m)

\* ------------------------------------------------------------ inputs

\* Texts the OCR collaborator extracts from the frames a client sends.
\*  1 blank page            2 a b c d e            3 A b c d e f
\*  4 a b c d               5..9 one word each     10, 11 long pages
\*  12 a page of 252 characters
OcrTexts ==
    << <<>>,
       << W(<<"a">>), W(<<"b">>), W(<<"c">>), W(<<"d">>), W(<<"e">>) >>,
       << W(<<"A">>), W(<<"b">>), W(<<"c">>), W(<<"d">>), W(<<"e">>), W(<<"f">>) >>,
       << W(<<"a">>), W(<<"b">>), W(<<"c">>), W(<<"d">>) >>,
       << W(<<"g">>) >>, << W(<<"h">>) >>, << W(<<"i">>) >>, << W(<<"j">>) >>,
       << W(<<"k">>) >>,
       << W(<<"m">>), Filler(2600) >>,
       << W(<<"n">>), Filler(2600) >>,
       << W(<<"p">>), Filler(250) >> >>

\* What a client says in an audio segment, as the transcription returns it.
\*  1 silence   2 "I'm Alex."   3 "Sam"   4 "?!"
\*  5 "I built a project called Robo Arm. zzz..."  (66 characters)
\*  6 "So zzz..."  (1703 characters)
Utterances ==
    << <<>>,
       << W(<<"I", "'", "m">>), W(<<"A", "l", "e", "x", ".">>) >>,
       << W(<<"S", "a", "m">>) >>,
       << W(<<"?", "!">>) >>,
       << W(<<"I">>), W(<<"b", "u", "i", "l", "t">>), W(<<"a">>),
          W(<<"p", "r", "o", "j", "e", "c", "t">>), W(<<"c", "a", "l", "l", "e", "d">>),
          W(<<"R", "o", "b", "o">>), W(<<"A", "r", "m", ".">>), Filler(31) >>,
       << W(<<"S", "o">>), Filler(1700) >> >>

\* Replies of the generation collaborator to the question prompt, stripped
QuestionTexts == {"", "Q1", "Q2"}

Failure == "Failure"

\* ------------------------------------------------------------ text buffers

BufLen(buf) == buf.to - buf.from

\* buf += <n characters>
Extend(buf, n) == [buf EXCEPT !.to = @ + n]

\* buf[-n:]
Trailing(buf, n) == IF BufLen(buf) > n THEN [buf EXCEPT !.from = buf.to - n] ELSE buf

\* session.py 76-77
CapContext(buf) == IF BufLen(buf) > ContextCap THEN Trailing(buf, ContextKeep) ELSE buf

\* CapTranscript, were the cut to leave as much as the cap allows
CapTranscriptKeepsCap(buf) ==
    IF BufLen(buf) > TranscriptCap THEN Trailing(buf, TranscriptCap) ELSE buf

\* session.py 138-139
CapTranscript(buf) ==
    IF BufLen(buf) > TranscriptCap THEN Trailing(buf, TranscriptKeep) ELSE buf

\* collections.deque(maxlen=n).append
DequeAppend(q, x, n) == IF Len(q) >= n THEN Tail(q) \o <<x>> ELSE q \o <<x>>

\* ------------------------------------------------------------ the session record

\* An optional time: <<>> is None, <<t>> is the time t
NoTime == <<>>

\* current_question before the first question
NoQuestion == "None"

\* session.py 29-35
ScoreFields == {"technical_depth", "clarity", "originality", "understanding", "overall"}

\* session.py 20-45: InterviewSession.__init__
NewSession ==
    [ context |-> [from |-> 0, to |-> 0],
      transcript |-> [from |-> 0, to |-> 0],
      questions_asked |-> <<>>,
      qa_pairs |-> <<>>,
      last_question_time |-> 0,
      last_speech_time |-> 0,
      evaluation_scores |-> [f \in ScoreFields |-> 0],
      recent_ocr_texts |-> <<>>,
      waiting_for_answer |-> FALSE,
      current_question |-> NoQuestion,
      interview_stage |-> "greeting",
      student_name |-> EmptyWord,
      project_name |-> <<>>,
      silence_start |-> NoTime,
      has_spoken_recently |-> FALSE,
      last_response_time |-> 0 ]

\* ------------------------------------------------------------ add_frame_context

\* set(text.lower().split())
WordSet(text) == {Lower(text[i]) : i \in 1..Len(text)}

\* session.py 47-54: the ratio intersection / union as [num, den]; 0.0 is 0/1
Similarity(text1, text2) ==
    LET words1 == WordSet(text1)
        words2 == WordSet(text2)
    IN IF words1 = {} \/ words2 = {} THEN [num |-> 0, den |-> 1]
       ELSE [num |-> Cardinality(words1 \cap words2),
             den |-> Cardinality(words1 \cup words2)]

\* ratio > 0.8
ExceedsThreshold(r) == r.num * SimDen > SimNum * r.den

\* session.py 69: the pairs of texts whose _similarity is above 0.8
Alike ==
    {p \in (DOMAIN OcrTexts) \X (DOMAIN OcrTexts) :
        ExceedsThreshold(Similarity(OcrTexts[p[1]], OcrTexts[p[2]]))}

\* IsDuplicate, were a text compared with the last appended one only
IsDuplicateOfLast(s, t) ==
    /\ s.recent_ocr_texts # <<>>
    /\ <<t, s.recent_ocr_texts[Len(s.recent_ocr_texts)]>> \in Alike

\* session.py 68-71: recent_ocr_texts holds indices into OcrTexts
IsDuplicate(s, t) ==
    \E i \in 1..Len(s.recent_ocr_texts) : <<t, s.recent_ocr_texts[i]>> \in Alike

\* len("\n[SCREEN]: ")
ScreenTagLen == 11

\* AcceptFrame, were the appended text not remembered
AcceptFrameForgets(s, t) ==
    [s EXCEPT !.context = CapContext(Extend(@, ScreenTagLen + TextLen(OcrTexts[t])))]

\* session.py 73-77: the branch `if not is_duplicate`
AcceptFrame(s, t) ==
    [s EXCEPT !.context = CapContext(Extend(@, ScreenTagLen + TextLen(OcrTexts[t]))),
              !.recent_ocr_texts = DequeAppend(@, t, OcrWindow)]

\* session.py 56-80: a frame is [valid, ocr]: whether it decodes, and the index
\* of the text the OCR collaborator extracts from it
AddFrameContext(s, frame) ==
    IF ~frame.valid THEN s
    ELSE IF OcrTexts[frame.ocr] = <<>> THEN s
    ELSE IF IsDuplicate(s, frame.ocr) THEN s
    ELSE AcceptFrame(s, frame.ocr)

\* ------------------------------------------------------------ add_audio_context

\* session.py 84-87: an audio segment is [valid, size, speech]: whether it
\* decodes, its length in bytes, and the index of what the transcription returns
AudioAccepted(audio) == audio.valid /\ audio.size >= MinAudioBytes

\* session.py 113
NameMarkers ==
    { <<"i", "'", "m">>, <<"i", "m">>, <<"n", "a", "m", "e">>,
      <<"c", "a", "l", "l", "e", "d">> }

\* session.py 125
ProjectMarkers ==
    { <<"p", "r", "o", "j", "e", "c", "t">>, <<"c", "a", "l", "l", "e", "d">>,
      <<"n", "a", "m", "e", "d">> }

\* session.py 122
ProjectCues ==
    { <<"p", "r", "o", "j", "e", "c", "t">>, <<"b", "u", "i", "l", "t">>,
      <<"c", "r", "e", "a", "t", "e", "d">> }

Min(S) == CHOOSE x \in S : \A y \in S : x <= y

\* the first i with words[i].lower() in markers and i + 1 < len(words); 0 if none
FirstMarker(words, markers) ==
    LET hits == {i \in 1..(Len(words) - 1) : LowerIn(words[i], markers)}
    IN IF hits = {} THEN 0 ELSE Min(hits)

\* session.py 109-118
ExtractName(s, words) ==
    LET i == FirstMarker(words, NameMarkers)
        marked == IF i > 0 THEN StripPunct(words[i + 1]) ELSE s.student_name
    IN [s EXCEPT !.student_name =
            IF marked = EmptyWord /\ Len(words) > 0 THEN StripPunct(words[1]) ELSE marked]

\* session.py 120-128
ExtractProject(s, words) ==
    LET i == FirstMarker(words, ProjectMarkers)
        upto == IF i + 3 < Len(words) THEN i + 3 ELSE Len(words)
    IN IF (\E cue \in ProjectCues : InText(words, cue)) /\ i > 0
       THEN [s EXCEPT !.project_name = JoinStrip(SubSeq(words, i + 1, upto))]
       ELSE s

\* session.py 130-136
RecordAnswer(s, u, now) ==
    IF s.waiting_for_answer
    THEN [s EXCEPT !.qa_pairs = @ \o << [question |-> s.current_question,
                                        answer |-> u, timestamp |-> now] >>,
                   !.waiting_for_answer = FALSE]
    ELSE s

\* NoteSpeech, were has_spoken_recently left as it was
NoteSpeechUnmarked(s, u, now) ==
    [s EXCEPT !.transcript = Extend(@, 1 + TextLen(Utterances[u])),
              !.last_speech_time = now,
              !.silence_start = NoTime]

\* session.py 104-107
NoteSpeech(s, u, now) ==
    [s EXCEPT !.transcript = Extend(@, 1 + TextLen(Utterances[u])),
              !.last_speech_time = now,
              !.has_spoken_recently = TRUE,
              !.silence_start = NoTime]

\* session.py 109-128
ExtractFacts(s, words) ==
    IF s.interview_stage = "awaiting_name" THEN ExtractName(s, words)
    ELSE IF s.interview_stage = "project_intro" THEN ExtractProject(s, words)
    ELSE s

\* session.py 103-139: what add_audio_context does once the transcription has
\* returned utterance u, at time now
AddAudioContext(s, u, now) ==
    IF Utterances[u] = <<>> THEN s
    ELSE LET heard == NoteSpeech(s, u, now)
             known == ExtractFacts(heard, Utterances[u])
             answered == RecordAnswer(known, u, now)
         IN [answered EXCEPT !.transcript = CapTranscript(@)]

\* ------------------------------------------------------------ should_ask_question

EarlyStages == {"greeting", "awaiting_name", "project_intro"}

\* session.py 159-161: the silence timer is started the first time the
\* has_spoken_recently branch is reached
StartSilence(s, now) ==
    IF s.has_spoken_recently /\ s.silence_start = NoTime
    THEN [s EXCEPT !.silence_start = <<now>>]
    ELSE s

\* QuestionBudgetSpent, were the comparison strict
QuestionBudgetExceeded(s) == Len(s.questions_asked) > MaxQuestions

\* session.py 156-157
QuestionBudgetSpent(s) == Len(s.questions_asked) >= MaxQuestions

\* StillSpeaking, were the comparison turned around
StillSpeakingReversed(s, now) ==
    s.has_spoken_recently /\ now - s.last_speech_time > Secs(SpeechPause)

\* session.py 163-165
StillSpeaking(s, now) ==
    s.has_spoken_recently /\ now - s.last_speech_time < Secs(SpeechPause)

\* ShouldAskQuestion, were a question allowed while the last one is unanswered
ShouldAskWhileWaiting(s, now) ==
    IF s.interview_stage \in EarlyStages THEN [ok |-> FALSE, s |-> s]
    ELSE IF now - s.last_question_time < Secs(QuestionCooldown) THEN [ok |-> FALSE, s |-> s]
    ELSE IF QuestionBudgetSpent(s) THEN [ok |-> FALSE, s |-> s]
    ELSE IF StillSpeaking(s, now) THEN [ok |-> FALSE, s |-> StartSilence(s, now)]
    ELSE [ok |-> BufLen(s.context) + BufLen(s.transcript) > MinContent,
          s |-> StartSilence(s, now)]

\* session.py 144-168: [ok, s], the answer and the session it leaves
ShouldAskQuestion(s, now) ==
    IF s.interview_stage \in EarlyStages THEN [ok |-> FALSE, s |-> s]
    ELSE IF s.waiting_for_answer THEN [ok |-> FALSE, s |-> s]
    ELSE IF now - s.last_question_time < Secs(QuestionCooldown) THEN [ok |-> FALSE, s |-> s]
    ELSE IF QuestionBudgetSpent(s) THEN [ok |-> FALSE, s |-> s]
    ELSE IF StillSpeaking(s, now) THEN [ok |-> FALSE, s |-> StartSilence(s, now)]
    ELSE [ok |-> BufLen(s.context) + BufLen(s.transcript) > MinContent,
          s |-> StartSilence(s, now)]

\* ------------------------------------------------------------ generate_conversational_response

\* What advance() returns: the scripted message, or nothing
Msg(kind, name) == [kind |-> kind, name |-> name, text |-> ""]

\* A generated question, as delivered
QuestionMsg(q) == [kind |-> "generated", name |-> EmptyWord, text |-> q]

NoMsg == Msg("None", EmptyWord)

\* CoolingDown, were the limit the 5 seconds of the re-prompts
CoolingDownFiveSeconds(s, now) == now - s.last_response_time < Secs(RepromptGate)

\* session.py 174-175
CoolingDown(s, now) == now - s.last_response_time < Secs(ResponseCooldown)

\* RepromptDue, were the re-prompts never sent
RepromptDropped(s, now) == FALSE

\* session.py 187, 198
RepromptDue(s, now) == now - s.last_response_time > Secs(RepromptGate)

\* Greet, were the stage left as it was
GreetKeepsStage(s, now) ==
    [s |-> [s EXCEPT !.last_response_time = now], ret |-> Msg("greeting", EmptyWord)]

\* session.py 177-180
Greet(s, now) ==
    [s |-> [s EXCEPT !.interview_stage = "awaiting_name", !.last_response_time = now],
     ret |-> Msg("greeting", EmptyWord)]

\* AwaitName, were the name to take the interview straight to the presentation
AwaitNameSkipsIntro(s, now) ==
    IF s.student_name # EmptyWord
    THEN [s |-> [s EXCEPT !.interview_stage = "presentation", !.last_response_time = now],
          ret |-> Msg("name_transition", s.student_name)]
    ELSE IF now - s.last_response_time > Secs(RepromptGate)
    THEN [s |-> [s EXCEPT !.last_response_time = now], ret |-> Msg("name_reprompt", EmptyWord)]
    ELSE [s |-> s, ret |-> NoMsg]

\* AwaitName, were it to ask for the name again whether or not it has one
AwaitNameIgnoresName(s, now) ==
    IF now - s.last_response_time > Secs(RepromptGate)
    THEN [s |-> [s EXCEPT !.last_response_time = now], ret |-> Msg("name_reprompt", EmptyWord)]
    ELSE [s |-> s, ret |-> NoMsg]

\* session.py 182-190
AwaitName(s, now) ==
    IF s.student_name # EmptyWord
    THEN [s |-> [s EXCEPT !.interview_stage = "project_intro", !.last_response_time = now],
          ret |-> Msg("name_transition", s.student_name)]
    ELSE IF RepromptDue(s, now)
    THEN [s |-> [s EXCEPT !.last_response_time = now], ret |-> Msg("name_reprompt", EmptyWord)]
    ELSE [s |-> s, ret |-> NoMsg]

\* session.py 192-201
ProjectIntro(s, now) ==
    IF BufLen(s.transcript) > IntroLength
    THEN [s |-> [s EXCEPT !.interview_stage = "presentation", !.last_response_time = now],
          ret |-> Msg("presentation_transition", s.student_name)]
    ELSE IF RepromptDue(s, now)
    THEN [s |-> [s EXCEPT !.last_response_time = now], ret |-> Msg("project_reprompt", EmptyWord)]
    ELSE [s |-> s, ret |-> NoMsg]

\* session.py 170-207: [s, ret]
GenerateConversationalResponse(s, now) ==
    IF CoolingDown(s, now) THEN [s |-> s, ret |-> NoMsg]
    ELSE IF s.interview_stage = "greeting" THEN Greet(s, now)
    ELSE IF s.interview_stage = "awaiting_name" THEN AwaitName(s, now)
    ELSE IF s.interview_stage = "project_intro" THEN ProjectIntro(s, now)
    ELSE [s |-> s, ret |-> NoMsg]

\* ------------------------------------------------------------ generate_question

\* RecordQuestion, were current_question left as it was
RecordQuestionKeepsCurrent(s, question, done) ==
    [s EXCEPT !.questions_asked = @ \o <<question>>,
              !.waiting_for_answer = TRUE,
              !.last_question_time = done]

\* session.py 243-248: the collaborator replied `question` and returned at `done`
RecordQuestion(s, question, done) ==
    [s EXCEPT !.questions_asked = @ \o <<question>>,
              !.current_question = question,
              !.waiting_for_answer = TRUE,
              !.last_question_time = done]

\* session.py 209-253: called at `now`; the generation collaborator replies
\* `reply` (a stripped text, or Failure) and returns at `done`.  [s, ret]
GenerateQuestion(s, now, reply, done) ==
    LET ask == ShouldAskQuestion(s, now)
    IN IF ~ask.ok THEN [s |-> ask.s, ret |-> NoQuestion]
       ELSE IF reply = Failure \/ reply = "" THEN [s |-> ask.s, ret |-> NoQuestion]
       ELSE [s |-> RecordQuestion(ask.s, reply, done), ret |-> reply]

\* ------------------------------------------------------------ update_evaluation

\* Replies of the generation collaborator to the evaluation prompt: the call
\* fails, the text is not JSON, it is a JSON object of scores, or it is a JSON
\* array such as [["clarity", 9], "x"], whose `scores` are the key/value pairs
\* that precede its first element that is not a pair
EvalReplies ==
    { [kind |-> "failure", scores |-> <<>>],
      [kind |-> "garbage", scores |-> <<>>],
      [kind |-> "json", scores |-> [f \in ScoreFields |-> 7]],
      [kind |-> "json", scores |-> [f \in {"clarity"} |-> 9]],
      [kind |-> "array", scores |-> [f \in {"clarity"} |-> 9]] }

\* dict.update(scores)
DictUpdate(old, new) ==
    [f \in DOMAIN old \cup DOMAIN new |-> IF f \in DOMAIN new THEN new[f] ELSE old[f]]

\* session.py 281-285: json.loads raises on text that is not JSON; dict.update
\* takes an object whole, and the pairs of an array one by one until it raises
\* on the element that is not a pair
MergeScores(s, reply) ==
    IF reply.kind \in {"json", "array"}
    THEN [s EXCEPT !.evaluation_scores = DictUpdate(@, reply.scores)]
    ELSE s

\* session.py 255-294
UpdateEvaluation(s, reply) == MergeScores(s, reply)

\* EvaluationDue, were the clock alone to decide
EvaluationDueByClock(s, now) == now % Secs(EvalPeriod) < Secs(1)

\* session_processor.py 49
EvaluationDue(s, now) ==
    Len(s.questions_asked) > 0 /\ now % Secs(EvalPeriod) < Secs(1)

\* session_processor.py 52-55
DecaySpeech(s, now) ==
    IF s.has_spoken_recently /\ now - s.last_speech_time > Secs(SpeechDecay)
    THEN [s EXCEPT !.has_spoken_recently = FALSE]
    ELSE s

\* ------------------------------------------------------------ bounds

\* time.time() when the connection is accepted
StartTime == 6085
\* iterations of the worker's loop in a run
MaxTicks == 4
\* inbound events a client sends in a run
MaxEvents == 3
\* events waiting in processing_queue
MaxQueue == 1
\* time.time() when the connection of the quiet interview is accepted
QuietStart == 6500
\* iterations of the worker's loop in the quiet interview
QuietTicks == 5
\* audio segments the student sends in the quiet interview
QuietLength == 4

\* ------------------------------------------------------------ state

VARIABLES
    active_sessions,  \* config.py: the registry, the set of registered ids
    handler,          \* websocket_endpoint: "idle", "running", "done"
    transport,        \* the client's connection: "none", "open", "closed"
    outbox,           \* the messages send_text delivered, in order
    session,          \* the InterviewSession
    queue,            \* session.processing_queue
    pc,               \* where process_session_data stands
    data,             \* the event the worker dequeued on this tick
    greeting_sent,    \* process_session_data's local
    temp_files,       \* the temporary audio files that exist
    clock,            \* time.time()
    received,         \* events enqueued so far
    ticks,            \* iterations of the worker's loop so far
    last_call,        \* the last call of a session method: [op, at, ret]
    spoke_at,         \* when advance() last returned a message, if it has
    ingested,         \* the OCR texts of the frames ingested so far
    appended,         \* the OCR texts appended to context so far, in order
    peers             \* the connection handlers of the other clients

vars ==
    << active_sessions, handler, transport, outbox, session, queue, pc, data,
       greeting_sent, temp_files, clock, received, ticks, last_call, spoke_at,
       ingested, appended, peers >>

SessionId == "s1"

\* websocket.py 15: the identifiers uuid4 gives the sessions of the other clients
Peers == {"s2", "s3"}

NoEvent == [type |-> "none"]

NoCall == [op |-> "none", at |-> 0, ret |-> NoMsg]

Call(op, at, ret) == [op |-> op, at |-> at, ret |-> ret]

\* How long the tick's sleep(0.1) may take: asyncio.sleep returns after at
\* least the time asked for (the OCR and the file writes block the loop)
TickSleeps == {1, Secs(ResponseCooldown)}

\* How long a collaborator call takes
CallTimes == {Secs(1)}

\* The frames and audio segments a client sends
Frames ==
    {[valid |-> TRUE, ocr |-> t] : t \in {10, 11}}

Audios ==
    {[valid |-> TRUE, size |-> MinAudioBytes - 1, speech |-> 2]}
    \cup {[valid |-> TRUE, size |-> MinAudioBytes, speech |-> u] : u \in {2, 6}}

Events ==
    {[type |-> "frame", content |-> f] : f \in Frames}
    \cup {[type |-> "audio", content |-> a] : a \in Audios}
    \cup {[type |-> "text", content |-> [valid |-> TRUE]]}

\* the state before the connection is accepted at time `start`
StartAt(start) ==
    /\ active_sessions = {}
    /\ handler = "idle"
    /\ transport = "none"
    /\ outbox = <<>>
    /\ session = NewSession
    /\ queue = <<>>
    /\ pc = "unborn"
    /\ data = NoEvent
    /\ greeting_sent = FALSE
    /\ temp_files = {}
    /\ clock = start
    /\ received = 0
    /\ ticks = 0
    /\ last_call = NoCall
    /\ spoke_at = NoTime
    /\ ingested = {}
    /\ appended = <<>>
    /\ peers = [p \in Peers |-> "idle"]

Init == StartAt(StartTime)

\* ------------------------------------------------------------ the connection handler

\* websocket.py 12-26: accept, create and register the session, start the
\* worker, send the session id
Connect ==
    /\ handler = "idle"
    /\ handler' = "running"
    /\ transport' = "open"
    /\ session' = NewSession
    /\ active_sessions' = active_sessions \cup {SessionId}
    /\ pc' = "loop"
    /\ outbox' = outbox \o << [type |-> "session_id", session_id |-> SessionId] >>
    /\ UNCHANGED << queue, data, greeting_sent, temp_files, clock, received, ticks,
                    last_call, spoke_at, ingested, appended, peers >>

\* The worker and the handler share one event loop: the handler runs only
\* while the worker is suspended in a sleep or a collaborator call
Suspended == pc \in {"loop", "greet", "transcribing", "respond", "backoff"}

\* websocket.py 28-35: one message received and enqueued
Receive(ev) ==
    /\ handler = "running"
    /\ Suspended
    /\ transport = "open"
    /\ Len(queue) < MaxQueue
    /\ queue' = queue \o <<ev>>
    /\ received' = received + 1
    /\ UNCHANGED << active_sessions, handler, transport, outbox, session, pc, data,
                    greeting_sent, temp_files, clock, ticks, last_call, spoke_at,
                    ingested, appended, peers >>

\* the client goes away
ClientCloses ==
    /\ transport = "open"
    /\ Suspended
    /\ transport' = "closed"
    /\ UNCHANGED << active_sessions, handler, outbox, session, queue, pc, data,
                    greeting_sent, temp_files, clock, received, ticks, last_call,
                    spoke_at, ingested, appended, peers >>

\* websocket.py 12-20 for another client: its session is registered under
\* its own identifier
PeerConnects(p) ==
    /\ peers[p] = "idle"
    /\ peers' = [peers EXCEPT ![p] = "running"]
    /\ active_sessions' = active_sessions \cup {p}
    /\ UNCHANGED << handler, transport, outbox, session, queue, pc, data,
                    greeting_sent, temp_files, clock, received, ticks, last_call,
                    spoke_at, ingested, appended >>

\* websocket.py 37-44 for another client
PeerLeaves(p) ==
    /\ peers[p] = "running"
    /\ peers' = [peers EXCEPT ![p] = "done"]
    /\ active_sessions' = active_sessions \ {p}
    /\ UNCHANGED << handler, transport, outbox, session, queue, pc, data,
                    greeting_sent, temp_files, clock, received, ticks, last_call,
                    spoke_at, ingested, appended >>

\* api.py 58-59
HealthCheck == [status |-> "healthy", active_sessions |-> Cardinality(active_sessions)]

\* api.py 6-55: the report of session id, the generation collaborator replying
\* `reply`; the fields of the payload copied from the session are left out
GenerateReport(id, reply) ==
    IF id \notin active_sessions
    THEN [error |-> "Session not found"]
    ELSE IF reply = Failure
    THEN [error |-> Failure]
    ELSE [session_id |-> id, report |-> reply]

\* a teardown that empties the registry
TeardownClearsRegistry(malformed) ==
    /\ handler = "running"
    /\ Suspended
    /\ IF malformed THEN transport = "open" ELSE transport = "closed"
    /\ handler' = "done"
    /\ pc' = "cancelled"
    /\ active_sessions' = {}
    /\ UNCHANGED << transport, outbox, session, queue, data, greeting_sent,
                    temp_files, clock, received, ticks, last_call, spoke_at, ingested,
                    appended, peers >>

\* websocket.py 37-44: receive_text raises (the client left) or the message is
\* not JSON or lacks a key; the worker is cancelled where it awaits and the
\* registry entry removed
Teardown(malformed) ==
    /\ handler = "running"
    /\ Suspended
    /\ IF malformed THEN transport = "open" ELSE transport = "closed"
    /\ handler' = "done"
    /\ pc' = "cancelled"
    /\ active_sessions' = active_sessions \ {SessionId}
    /\ UNCHANGED << transport, outbox, session, queue, data, greeting_sent,
                    temp_files, clock, received, ticks, last_call, spoke_at, ingested, appended, peers >>

\* ------------------------------------------------------------ the worker

\* websocket.send_text raises once the client has left
CanSend == transport = "open"

Question(msg) == [type |-> "question", question |-> msg, speak |-> TRUE]

\* session_processor.py 11-12: the grace period before the greeting
GraceWait ==
    /\ pc = "loop"
    /\ ticks' = ticks + 1
    /\ IF ~greeting_sent /\ transport # "none"
       THEN /\ clock' = clock + Secs(GraceSleep)
            /\ pc' = "greet"
       ELSE /\ pc' = "poll"
            /\ UNCHANGED clock
    /\ UNCHANGED << active_sessions, handler, transport, outbox, session, queue, data,
                    greeting_sent, temp_files, received, last_call, spoke_at, ingested, appended, peers >>

\* session_processor.py 13-20
SendGreeting ==
    /\ pc = "greet"
    /\ LET r == GenerateConversationalResponse(session, clock)
       IN /\ session' = r.s
          /\ last_call' = Call("advance", clock, r.ret)
          /\ spoke_at' = IF r.ret = NoMsg THEN spoke_at ELSE <<clock>>
          /\ IF r.ret = NoMsg
             THEN pc' = "poll" /\ UNCHANGED << outbox, greeting_sent >>
             ELSE IF CanSend
             THEN /\ outbox' = outbox \o <<Question(r.ret)>>
                  /\ greeting_sent' = TRUE
                  /\ pc' = "poll"
             ELSE pc' = "backoff" /\ UNCHANGED << outbox, greeting_sent >>
    /\ UNCHANGED << active_sessions, handler, transport, queue, data, temp_files,
                    clock, received, ticks, ingested, appended, peers >>

\* session_processor.py 22-23
Poll ==
    /\ pc = "poll"
    /\ IF queue = <<>>
       THEN pc' = "decay" /\ UNCHANGED << queue, data >>
       ELSE /\ data' = Head(queue)
            /\ queue' = Tail(queue)
            /\ pc' = "handle"
    /\ UNCHANGED << active_sessions, handler, transport, outbox, session,
                    greeting_sent, temp_files, clock, received, ticks, last_call,
                    spoke_at, ingested, appended, peers >>

\* the text the OCR collaborator extracts from a frame, if it decodes
Extracted(frame) == IF frame.valid THEN {frame.ocr} ELSE {}

\* the text add_frame_context appends to the context of s, if it does
Accepted(s, frame) ==
    IF AddFrameContext(s, frame).context # s.context THEN <<frame.ocr>> ELSE <<>>

\* session_processor.py 25-26
IngestFrame ==
    /\ pc = "handle"
    /\ data.type = "frame"
    /\ \E d \in CallTimes :
        /\ clock' = clock + d
    /\ session' = AddFrameContext(session, data.content)
    /\ ingested' = ingested \cup Extracted(data.content)
    /\ appended' = appended \o Accepted(session, data.content)
    /\ last_call' = Call("ingest_frame", clock, NoMsg)
    /\ pc' = "eval"
    /\ UNCHANGED << active_sessions, handler, transport, outbox, queue, data,
                    greeting_sent, temp_files, received, ticks, spoke_at, peers >>

\* session.py 56-80: add_frame_context called on a session directly
FrameArrives(frame) ==
    /\ session' = AddFrameContext(session, frame)
    /\ ingested' = ingested \cup Extracted(frame)
    /\ appended' = appended \o Accepted(session, frame)
    /\ data' = [type |-> "frame", content |-> frame]
    /\ last_call' = Call("ingest_frame", clock, NoMsg)
    /\ received' = received + 1
    /\ UNCHANGED << active_sessions, handler, transport, outbox, queue, pc,
                    greeting_sent, temp_files, clock, ticks, spoke_at, peers >>

\* session.py 90: the file is named after the second it is written in
TempName(now) == now \div TicksPerSecond

\* session_processor.py 27-28, session.py 84-99: up to the transcription call
IngestAudio ==
    /\ pc = "handle"
    /\ data.type = "audio"
    /\ last_call' = Call("ingest_audio", clock, NoMsg)
    /\ IF AudioAccepted(data.content)
       THEN /\ temp_files' = temp_files \cup {TempName(clock)}
            /\ pc' = "transcribing"
       ELSE /\ pc' = "after_audio"
            /\ UNCHANGED temp_files
    /\ UNCHANGED << active_sessions, handler, transport, outbox, session, queue, data,
                    greeting_sent, clock, received, ticks, spoke_at, ingested, appended, peers >>

\* session.py 109-118: the name add_audio_context sets from utterance u, if
\* it sets one
Heard(s, u, now) ==
    LET after == AddAudioContext(s, u, now)
    IN IF after.student_name # s.student_name
       THEN Msg("name", after.student_name)
       ELSE NoMsg

\* session.py 96-142: the transcription call returns, or fails
TranscriptionDone(ok) ==
    /\ pc = "transcribing"
    /\ \E d \in CallTimes :
        /\ clock' = clock + d
        /\ IF ok
           THEN /\ temp_files' = temp_files \ {TempName(last_call.at)}
                /\ session' = AddAudioContext(session, data.content.speech, clock + d)
                /\ last_call' = Call("transcribed", last_call.at,
                                     Heard(session, data.content.speech, clock + d))
           ELSE UNCHANGED << temp_files, session, last_call >>
    /\ pc' = "after_audio"
    /\ UNCHANGED << active_sessions, handler, transport, outbox, queue, data,
                    greeting_sent, received, ticks, spoke_at, ingested, appended, peers >>

\* session_processor.py 30-31, 40
AfterAudio ==
    /\ pc = "after_audio"
    /\ IF session.interview_stage \in {"awaiting_name", "project_intro"}
       THEN /\ clock' = clock + Secs(ResponseSleep)
            /\ pc' = "respond"
       ELSE IF session.interview_stage = "presentation"
       THEN pc' = "ask" /\ UNCHANGED clock
       ELSE pc' = "eval" /\ UNCHANGED clock
    /\ UNCHANGED << active_sessions, handler, transport, outbox, session, queue, data,
                    greeting_sent, temp_files, received, ticks, last_call, spoke_at,
                    ingested, appended, peers >>

\* session_processor.py 32-38
Respond ==
    /\ pc = "respond"
    /\ LET r == GenerateConversationalResponse(session, clock)
       IN /\ session' = r.s
          /\ last_call' = Call("advance", clock, r.ret)
          /\ spoke_at' = IF r.ret = NoMsg THEN spoke_at ELSE <<clock>>
          /\ IF r.ret = NoMsg
             THEN pc' = "eval" /\ UNCHANGED outbox
             ELSE IF CanSend
             THEN pc' = "eval" /\ outbox' = outbox \o <<Question(r.ret)>>
             ELSE pc' = "backoff" /\ UNCHANGED outbox
    /\ UNCHANGED << active_sessions, handler, transport, queue, data, greeting_sent,
                    temp_files, clock, received, ticks, ingested, appended, peers >>

\* session_processor.py 41-47: generate_question; the generation collaborator
\* is called only when should_ask_question allows it, and replies one of
\* `replies`
Ask(replies) ==
    /\ pc = "ask"
    /\ \E reply \in replies, d \in CallTimes :
        LET called == ShouldAskQuestion(session, clock).ok
            done == IF called THEN clock + d ELSE clock
            r == GenerateQuestion(session, clock, reply, done)
        IN /\ clock' = done
           /\ session' = r.s
           /\ last_call' = Call("generate", clock,
                                IF r.ret = NoQuestion THEN NoMsg ELSE QuestionMsg(r.ret))
           /\ IF r.ret = NoQuestion
              THEN pc' = "eval" /\ UNCHANGED outbox
              ELSE IF CanSend
              THEN pc' = "eval" /\ outbox' = outbox \o <<Question(QuestionMsg(r.ret))>>
              ELSE pc' = "backoff" /\ UNCHANGED outbox
    /\ UNCHANGED << active_sessions, handler, transport, queue, data, greeting_sent,
                    temp_files, received, ticks, spoke_at, ingested, appended, peers >>

\* session_processor.py 25-27: an event that is neither a frame nor audio
IgnoreEvent ==
    /\ pc = "handle"
    /\ data.type \notin {"frame", "audio"}
    /\ pc' = "eval"
    /\ UNCHANGED << active_sessions, handler, transport, outbox, session, queue, data,
                    greeting_sent, temp_files, clock, received, ticks, last_call,
                    spoke_at, ingested, appended, peers >>

\* session_processor.py 49-50, session.py 255-294: a failing send is caught
\* inside update_evaluation
Evaluate ==
    /\ pc = "eval"
    /\ IF EvaluationDue(session, clock)
       THEN \E reply \in EvalReplies, d \in CallTimes :
              /\ clock' = clock + d
              /\ session' = UpdateEvaluation(session, reply)
              /\ last_call' = Call("evaluate", clock, reply)
              /\ IF reply.kind = "json" /\ CanSend
                 THEN outbox' = outbox \o
                        << [type |-> "evaluation",
                            scores |-> UpdateEvaluation(session,
                    reply).evaluation_scores] >>
                 ELSE UNCHANGED outbox
       ELSE UNCHANGED << clock, session, last_call, outbox >>
    /\ pc' = "decay"
    /\ UNCHANGED << active_sessions, handler, transport, queue, data, greeting_sent,
                    temp_files, received, ticks, spoke_at, ingested, appended, peers >>

\* session_processor.py 52-57: the tick ends; its sleep takes d
Decay(d) ==
    /\ pc = "decay"
    /\ session' = DecaySpeech(session, clock)
    /\ clock' = clock + d
    /\ pc' = "loop"
    /\ data' = NoEvent
    /\ UNCHANGED << active_sessions, handler, transport, outbox, queue, greeting_sent,
                    temp_files, received, ticks, last_call, spoke_at, ingested, appended, peers >>

\* a loop that ends at the first failure it catches
BackoffStops ==
    /\ pc = "backoff"
    /\ pc' = "stopped"
    /\ UNCHANGED << active_sessions, handler, transport, outbox, session, queue, data,
                    greeting_sent, temp_files, clock, received, ticks, last_call,
                    spoke_at, ingested, appended, peers >>

\* session_processor.py 59-61
Backoff ==
    /\ pc = "backoff"
    /\ clock' = clock + Secs(BackoffSleep)
    /\ pc' = "loop"
    /\ data' = NoEvent
    /\ UNCHANGED << active_sessions, handler, transport, outbox, session, queue,
                    greeting_sent, temp_files, received, ticks, last_call, spoke_at,
                    ingested, appended, peers >>

Next ==
    \/ Connect
    \/ \E ev \in Events : received < MaxEvents /\ Receive(ev)
    \/ ClientCloses
    \/ \E malformed \in BOOLEAN : Teardown(malformed)
    \/ ticks < MaxTicks /\ GraceWait
    \/ SendGreeting
    \/ Poll
    \/ IngestFrame
    \/ IngestAudio
    \/ \E ok \in BOOLEAN : TranscriptionDone(ok)
    \/ AfterAudio
    \/ Respond
    \/ Ask(QuestionTexts \cup {Failure})
    \/ IgnoreEvent
    \/ Evaluate
    \/ \E d \in TickSleeps : Decay(d)
    \/ Backoff

Spec == Init /\ [][Next]_vars

\* ------------------------------------------------------------ a session fed frames

\* frames fed to one session in a run
MaxFrames == 7

\* The frames fed: one that does not decode, a blank one, two that differ in
\* case and one word, one that is a subset of them, and five unlike the rest
FrameInputs ==
    {[valid |-> FALSE, ocr |-> 1]}
    \cup {[valid |-> TRUE, ocr |-> t] : t \in {1, 2, 3, 4, 5, 6, 7, 8, 9}}

\* The pages 5..9 differ only in the one word they hold: a run shows them for
\* the first time in this order, and returns to any page it has shown
InOrder(frame) == frame.ocr \in 6..9 => frame.ocr - 1 \in ingested

FrameNext ==
    \E frame \in FrameInputs :
        received < MaxFrames /\ InOrder(frame) /\ FrameArrives(frame)

FrameSpec == Init /\ [][FrameNext]_vars

\* ------------------------------------------------------------ a whole interview

\* audio segments the student sends in an interview
InterviewLength == 14

\* The segments of an interview: silence, or a long stretch of speech
InterviewEvents ==
    {[type |-> "audio", content |-> [valid |-> TRUE, size |-> MinAudioBytes, speech |-> u]] :
        u \in {1, 6}}

\* An interview that stays connected: the student sends one segment while the
\* worker sleeps between two ticks, every tick takes 15 seconds, and the
\* generation collaborator always replies with a question
InterviewNext ==
    \/ Connect
    \/ \E ev \in InterviewEvents :
          received < InterviewLength /\ pc = "loop" /\ queue = <<>> /\ Receive(ev)
    \/ queue # <<>> /\ GraceWait
    \/ SendGreeting
    \/ Poll
    \/ IngestAudio
    \/ TranscriptionDone(TRUE)
    \/ AfterAudio
    \/ Respond
    \/ Ask({"Q1", "Q2"})
    \/ Evaluate
    \/ Decay(Secs(ResponseCooldown))

InterviewSpec == Init /\ [][InterviewNext]_vars

\* ------------------------------------------------------------ an interview with pauses

\* The interview above, with ticks that find the queue empty: the student
\* sends a segment before a tick or lets the tick pass
QuietNext ==
    \/ Connect
    \/ \E ev \in InterviewEvents :
          received < QuietLength /\ pc = "loop" /\ queue = <<>> /\ Receive(ev)
    \/ ticks < QuietTicks /\ GraceWait
    \/ SendGreeting
    \/ Poll
    \/ IngestAudio
    \/ TranscriptionDone(TRUE)
    \/ AfterAudio
    \/ Respond
    \/ Ask({"Q1", "Q2"})
    \/ Evaluate
    \/ Decay(Secs(ResponseCooldown))

QuietSpec == StartAt(QuietStart) /\ [][QuietNext]_vars

\* ------------------------------------------------------------ properties

StageRank(stage) ==
    CASE stage = "greeting" -> 0
      [] stage = "awaiting_name" -> 1
      [] stage = "project_intro" -> 2
      [] stage = "presentation" -> 3

\* C1: no step of the connection handler or of the worker moves
\* interview_stage backwards or over a stage: it stays, or moves to the next
\* of greeting, awaiting_name, project_intro, presentation
StageMovesForward ==
    [][StageRank(session'.interview_stage) \in
         {StageRank(session.interview_stage), StageRank(session.interview_stage) + 1}]_vars

\* the interview went through all four stages
ReachedPresentation ==
    /\ session.interview_stage = "presentation"
    /\ last_call.op = "advance"
    /\ last_call.ret.kind = "presentation_transition"

\* a step in which the worker calls generate_conversational_response
AdvanceStep == pc \in {"greet", "respond"} /\ pc' \in {"poll", "eval", "backoff"}

\* C2: two calls of generate_conversational_response that return a message
\* are at least 15 seconds apart; a call made less than 15 seconds after
\* last_response_time returns nothing and leaves the stage and
\* last_response_time alone; the call made in stage greeting returns the greeting
ResponsesRateLimited ==
    [][AdvanceStep =>
         /\ (last_call'.ret # NoMsg /\ spoke_at # NoTime
               => clock - spoke_at[1] >= Secs(ResponseCooldown))
         /\ (clock - session.last_response_time < Secs(ResponseCooldown)
               => /\ last_call'.ret = NoMsg
                  /\ session'.interview_stage = session.interview_stage
                  /\ session'.last_response_time = session.last_response_time)
         /\ (session.interview_stage = "greeting"
               => last_call'.ret = Msg("greeting", EmptyWord))]_vars

\* after the greeting and the name transition, a call less than 15 seconds
\* after the last message returned nothing
ResponseHeldBack ==
    /\ session.interview_stage = "project_intro"
    /\ spoke_at # NoTime
    /\ last_call.op = "advance"
    /\ last_call.ret = NoMsg
    /\ last_call.at - spoke_at[1] < Secs(ResponseCooldown)
    /\ BufLen(session.transcript) > IntroLength

\* the worker's call of generate_conversational_response that follows an
\* utterance which set student_name
NameResponse ==
    /\ pc = "respond"
    /\ pc' \in {"eval", "backoff"}
    /\ last_call.op = "transcribed"
    /\ last_call.ret.kind = "name"

\* C3, as claimed: the call that follows an utterance which set student_name
\* moves the stage to project_intro and returns the transition message
NameAlwaysAdvances ==
    [][NameResponse =>
         /\ session'.interview_stage = "project_intro"
         /\ last_call'.ret = Msg("name_transition", session.student_name)]_vars

\* C3: the call that follows an utterance which set student_name moves the
\* stage to project_intro and returns the transition message if at least 15
\* seconds have passed since last_response_time; otherwise it returns nothing
\* and the stage stays awaiting_name
NameAdvancesOnceCooledDown ==
    [][NameResponse =>
         IF clock - session.last_response_time >= Secs(ResponseCooldown)
         THEN /\ session'.interview_stage = "project_intro"
              /\ last_call'.ret = Msg("name_transition", session.student_name)
         ELSE /\ session'.interview_stage = "awaiting_name"
              /\ last_call'.ret = NoMsg]_vars

\* "I'm Alex." was heard in awaiting_name and the next call made the transition
AlexIntroduced ==
    /\ session.student_name = W(<<"A", "l", "e", "x">>)
    /\ session.interview_stage = "project_intro"
    /\ last_call.op = "advance"
    /\ last_call.ret = Msg("name_transition", W(<<"A", "l", "e", "x">>))

\* a step in which add_frame_context is given a frame that decodes
FrameIngested ==
    /\ last_call'.op = "ingest_frame"
    /\ received' = received + 1
    /\ data'.content.valid

\* Jaccard similarity of the word sets of two OCR texts above 0.8
Similar(t, u) == ExceedsThreshold(Similarity(OcrTexts[t], OcrTexts[u]))

\* C4, as claimed: a text similar to any text ingested before it, however
\* long ago, is not appended to context
SimilarNeverAppended ==
    [][FrameIngested =>
         ((\E u \in ingested : Similar(u, data'.content.ocr))
            => session'.context = session.context)]_vars

\* the texts of the 5 extractions appended last
LastAppended ==
    {appended[i] : i \in {j \in 1..Len(appended) : j > Len(appended) - OcrWindow}}

\* C4: a text similar to one of the 5 extractions appended last is not
\* appended to context, whatever was ingested and rejected in between
SimilarToRecentNotAppended ==
    [][FrameIngested =>
         ((\E u \in LastAppended : Similar(u, data'.content.ocr))
            => /\ session'.context = session.context
               /\ appended' = appended)]_vars

\* page 3 came after page 2 and two other pages, and was not appended
SimilarPageRejected ==
    /\ data.type = "frame"
    /\ data.content = [valid |-> TRUE, ocr |-> 3]
    /\ Len(appended) >= 3
    /\ appended[1] = 2
    /\ \A i \in 1..Len(appended) : appended[i] # 3

\* C5: context never holds more than 5000 characters and transcript never
\* more than 3000; an append that takes context over 5000 leaves the last
\* 3000 characters of the buffer it made, one that takes transcript over 3000
\* leaves the last 2000, and any other append cuts nothing
BuffersCapped ==
    /\ [](BufLen(session.context) <= ContextCap)
    /\ [](BufLen(session.transcript) <= TranscriptCap)
    /\ [][/\ session'.context.to >= session.context.to
          /\ session'.context.from =
                IF session'.context.to - session.context.from > ContextCap
                THEN session'.context.to - ContextKeep
                ELSE session.context.from
          /\ session'.transcript.to >= session.transcript.to
          /\ session'.transcript.from =
                IF session'.transcript.to - session.transcript.from > TranscriptCap
                THEN session'.transcript.to - TranscriptKeep
                ELSE session.transcript.from]_vars

\* a second long page took context over 5000 and 3000 characters were left
ContextCut ==
    /\ session.context.from > 0
    /\ BufLen(session.context) = ContextKeep
    /\ Len(appended) = 2
    /\ BufLen(session.transcript) > 0

\* a step in which the worker calls generate_question
AskStep == pc = "ask" /\ pc' \in {"eval", "backoff"}

\* the "question" messages delivered so far
QuestionsSent == SelectSeq(outbox, LAMBDA m : m.type = "question")

\* C6: should_ask_question answers no whenever questions_asked holds 5
\* entries; questions_asked never holds more than 5, and a call of
\* generate_question made with 5 recorded returns nothing, records nothing
\* and sends nothing
QuestionsCappedAtFive ==
    /\ [](Len(session.questions_asked) <= MaxQuestions)
    /\ [](Len(session.questions_asked) = MaxQuestions
            => ~ShouldAskQuestion(session, clock).ok)
    /\ [][AskStep /\ Len(session.questions_asked) = MaxQuestions =>
            /\ last_call'.ret = NoMsg
            /\ session'.questions_asked = session.questions_asked
            /\ outbox' = outbox]_vars

\* a sixth call of generate_question was refused though the student had
\* answered, was silent, and the last question was 5 seconds old
SixthQuestionRefused ==
    /\ Len(session.questions_asked) = MaxQuestions
    /\ Len(session.qa_pairs) = MaxQuestions
    /\ last_call.op = "generate"
    /\ last_call.ret = NoMsg
    /\ ~session.waiting_for_answer
    /\ last_call.at - session.last_question_time >= Secs(QuestionCooldown)
    /\ last_call.at - session.last_speech_time >= Secs(SpeechPause)
    /\ BufLen(session.context) + BufLen(session.transcript) > MinContent

\* the student spoke less than 5 seconds ago
SpokeJustNow ==
    session.has_spoken_recently /\ clock - session.last_speech_time < Secs(SpeechPause)

\* C7: while has_spoken_recently holds and less than 5 seconds have passed
\* since last_speech_time, should_ask_question answers no, and a call of
\* generate_question returns nothing and leaves questions_asked,
\* current_question, waiting_for_answer and last_question_time alone
SpeechHoldsQuestions ==
    /\ [](SpokeJustNow => ~ShouldAskQuestion(session, clock).ok)
    /\ [][AskStep /\ SpokeJustNow =>
            /\ last_call'.ret = NoMsg
            /\ outbox' = outbox
            /\ session'.questions_asked = session.questions_asked
            /\ session'.current_question = session.current_question
            /\ session'.waiting_for_answer = session.waiting_for_answer
            /\ session'.last_question_time = session.last_question_time]_vars

\* in the presentation, a call of generate_question right after speech
\* returned nothing, though nothing else stood in the way of a question
HeldForSpeech ==
    /\ session.interview_stage = "presentation"
    /\ last_call.op = "generate"
    /\ last_call.ret = NoMsg
    /\ session.has_spoken_recently
    /\ last_call.at - session.last_speech_time < Secs(SpeechPause)
    /\ ~session.waiting_for_answer
    /\ session.questions_asked = <<>>
    /\ last_call.at - session.last_question_time >= Secs(QuestionCooldown)
    /\ BufLen(session.context) + BufLen(session.transcript) > MinContent

\* C8: while waiting_for_answer holds, current_question is set, is not
\* empty, and is the last entry of questions_asked
WaitingHasQuestion ==
    session.waiting_for_answer =>
        /\ session.current_question # NoQuestion
        /\ session.current_question # ""
        /\ session.questions_asked # <<>>
        /\ session.current_question =
             session.questions_asked[Len(session.questions_asked)]

\* a question was asked and its answer is awaited
AwaitingAnswer ==
    /\ session.waiting_for_answer
    /\ session.questions_asked = <<"Q2">>
    /\ Len(QuestionsSent) = 4

\* a step in which add_audio_context receives a transcription that is not blank
AnswerStep ==
    /\ pc = "transcribing"
    /\ last_call'.op = "transcribed"
    /\ Utterances[data.content.speech] # <<>>

\* C9: a transcription that is not blank and arrives while waiting_for_answer
\* holds appends one entry {current_question, answer, timestamp} to qa_pairs
\* and clears waiting_for_answer and current_question; one that arrives
\* while it does not hold leaves qa_pairs alone
AnswerClearsQuestion ==
    [][AnswerStep =>
         IF session.waiting_for_answer
         THEN /\ session'.qa_pairs = session.qa_pairs \o
                    << [question |-> session.current_question,
                        answer |-> data.content.speech,
                        timestamp |-> clock'] >>
              /\ ~session'.waiting_for_answer
              /\ session'.current_question = NoQuestion
         ELSE session'.qa_pairs = session.qa_pairs]_vars

\* the greeting, as delivered
GreetingMsg == Question(Msg("greeting", EmptyWord))

TempFileReleased == pc # "transcribing" => temp_files = {}

\* ------------------------------------------------------------ the worker keeps running

\* session_processor.py 9-61: the steps of the worker task, a tick taking 15
\* seconds
WorkerStep ==
    \/ ticks < MaxTicks /\ GraceWait
    \/ SendGreeting
    \/ Poll
    \/ IngestFrame
    \/ IngestAudio
    \/ \E ok \in BOOLEAN : TranscriptionDone(ok)
    \/ AfterAudio
    \/ Respond
    \/ Ask(QuestionTexts \cup {Failure})
    \/ IgnoreEvent
    \/ Evaluate
    \/ Decay(Secs(ResponseCooldown))
    \/ Backoff

\* The events of the runs below: a frame, a short audio segment, a long
\* stretch of speech, and an event of another type
LiveEvents ==
    { [type |-> "frame", content |-> [valid |-> TRUE, ocr |-> 10]],
      [type |-> "audio",
       content |-> [valid |-> TRUE, size |-> MinAudioBytes - 1, speech |-> 2]],
      [type |-> "audio",
       content |-> [valid |-> TRUE, size |-> MinAudioBytes, speech |-> 6]],
      [type |-> "text", content |-> [valid |-> TRUE]] }

LiveNext ==
    \/ Connect
    \/ \E ev \in LiveEvents : received < MaxEvents /\ Receive(ev)
    \/ ClientCloses
    \/ \E malformed \in BOOLEAN : Teardown(malformed)
    \/ WorkerStep

\* The event loop resumes a task whose sleep or call is over: the worker is
\* not left waiting for ever
LiveSpec == Init /\ [][LiveNext]_vars /\ WF_vars(WorkerStep)

\* C12: while its handler has not cancelled it, the worker begins a next tick
\* after every tick; the worker stops only by the handler's cancellation; a
\* failure caught by the loop is followed by a sleep of 1 second and the next
\* tick
WorkerNeverStops ==
    /\ \A n \in 0..(MaxTicks - 1) :
          (pc # "unborn" /\ ticks = n) ~> (ticks > n \/ pc = "cancelled")
    /\ [][pc' = "cancelled" /\ pc # "cancelled" =>
            handler = "running" /\ handler' = "done"]_vars
    /\ [][pc = "backoff" /\ pc' # "backoff" /\ pc' # "cancelled" =>
            pc' = "loop" /\ clock' = clock + Secs(1)]_vars

\* a send of the greeting failed on the first tick, the loop backed off and
\* the second tick is under way
RetriedAfterFailure ==
    /\ ticks = 2
    /\ pc = "greet"
    /\ handler = "running"
    /\ transport = "closed"
    /\ ~greeting_sent
    /\ session.interview_stage = "awaiting_name"

\* ------------------------------------------------------------ the registry

\* Several clients connect and leave in any order while one session's worker
\* ticks without events
RegistryNext ==
    \/ Connect
    \/ ClientCloses
    \/ \E malformed \in BOOLEAN : Teardown(malformed)
    \/ \E p \in Peers : PeerConnects(p)
    \/ \E p \in Peers : PeerLeaves(p)
    \/ ticks < MaxTicks /\ GraceWait
    \/ SendGreeting
    \/ Poll
    \/ \E d \in TickSleeps : Decay(d)
    \/ Backoff

RegistrySpec == Init /\ [][RegistryNext]_vars

\* the sessions whose connection handler is running
Running ==
    {id \in {SessionId} : handler = "running"} \cup {p \in Peers : peers[p] = "running"}

\* C13: the registry holds exactly the sessions whose handler is running; a
\* handler that starts inserts its own, new identifier; a handler that exits
\* cancels its worker and removes its own entry only; the health count is the
\* number of running handlers and a report lookup for a session whose handler
\* is not running returns the error payload
RegistryTracksHandlers ==
    /\ [](active_sessions = Running)
    /\ [](HealthCheck.active_sessions = Cardinality(Running))
    /\ [](\A id \in ({SessionId} \cup Peers) \ Running :
            GenerateReport(id, "R") = [error |-> "Session not found"])
    /\ [][handler = "idle" /\ handler' = "running" =>
            /\ SessionId \notin active_sessions
            /\ active_sessions' = active_sessions \cup {SessionId}]_vars
    /\ [][handler = "running" /\ handler' = "done" =>
            /\ pc' = "cancelled"
            /\ active_sessions' = active_sessions \ {SessionId}]_vars
    /\ [][\A p \in Peers :
            /\ peers[p] = "idle" /\ peers'[p] = "running" =>
                  p \notin active_sessions /\ active_sessions' = active_sessions \cup {p}
            /\ peers[p] = "running" /\ peers'[p] = "done" =>
                  active_sessions' = active_sessions \ {p}]_vars

\* the session's handler has exited while another client is still connected
\* and a third has left
LeftWhileOthersStay ==
    /\ handler = "done"
    /\ pc = "cancelled"
    /\ peers["s2"] = "running"
    /\ peers["s3"] = "done"
    /\ active_sessions = {"s2"}

\* C14: a tick that reaches its end while the evaluation is due (a question
\* has been asked and the clock is in the first second of a minute) has just
\* run the evaluation, whether or not it dequeued an event
EvaluationCheckedEveryTick ==
    [][pc # "decay" /\ pc' = "decay" /\ EvaluationDue(session, clock) =>
          last_call'.op = "evaluate" /\ last_call'.at = clock]_vars

\* the session waits for a name it does not have, or for more than 50
\* characters of project introduction
AwaitingMore ==
    \/ session.interview_stage = "awaiting_name" /\ session.student_name = EmptyWord
    \/ session.interview_stage = "project_intro" /\ BufLen(session.transcript) <= IntroLength

\* the re-prompt of the stage the session is in
Reprompt ==
    IF session.interview_stage = "awaiting_name"
    THEN Msg("name_reprompt", EmptyWord)
    ELSE Msg("project_reprompt", EmptyWord)

\* the call of generate_conversational_response in this step changed nothing
NoEffect == last_call'.ret = NoMsg /\ session' = session

\* C15, as claimed: while the name or the introduction is awaited, a call of
\* generate_conversational_response more than 5 seconds after
\* last_response_time returns the re-prompt and stamps last_response_time, and
\* a call 5 seconds or less after it has no effect
RepromptAfterFiveSeconds ==
    [][AdvanceStep /\ AwaitingMore =>
         IF clock - session.last_response_time > Secs(RepromptGate)
         THEN /\ last_call'.ret = Reprompt
              /\ session'.last_response_time = clock
         ELSE NoEffect]_vars

\* C15: while the name or the introduction is awaited, a call of
\* generate_conversational_response at least 15 seconds after
\* last_response_time returns the re-prompt and stamps last_response_time, and
\* a call less than 15 seconds after it has no effect
RepromptAfterCooldown ==
    [][AdvanceStep /\ AwaitingMore =>
         IF clock - session.last_response_time >= Secs(ResponseCooldown)
         THEN /\ last_call'.ret = Reprompt
              /\ session'.last_response_time = clock
              /\ session'.interview_stage = session.interview_stage
         ELSE NoEffect]_vars

\* the student was asked again for more about the project, 15 seconds or more
\* after the message before
AskedForMoreDetail ==
    /\ session.interview_stage = "project_intro"
    /\ last_call.op = "advance"
    /\ last_call.ret = Msg("project_reprompt", EmptyWord)
    /\ session.last_response_time = last_call.at
    /\ BufLen(session.transcript) <= IntroLength

\* a step in which the worker calls update_evaluation
EvalStep == pc = "eval" /\ pc' = "decay" /\ EvaluationDue(session, clock)

\* the evaluation message that carries `scores`
EvaluationMsg(scores) == [type |-> "evaluation", scores |-> scores]

\* C16: a call of update_evaluation whose reply is a JSON object of scores
\* overwrites the fields the object holds, keeps the others and sends the
\* merged scores if the client is still there; a call that fails, or whose
\* reply is anything else, leaves evaluation_scores as they were and sends
\* nothing
ScoresMergedOnlyOnSuccess ==
    [][EvalStep =>
         LET reply == last_call'.ret
             before == session.evaluation_scores
             after == session'.evaluation_scores
         IN IF reply.kind = "json"
            THEN /\ \A f \in ScoreFields :
                      after[f] = IF f \in DOMAIN reply.scores
                                 THEN reply.scores[f] ELSE before[f]
                 /\ CanSend => outbox' = outbox \o <<EvaluationMsg(after)>>
                 /\ ~CanSend => outbox' = outbox
            ELSE after = before /\ outbox' = outbox]_vars

\* the extractions appended to context last, at most 5 of them, oldest first
RecentlyAccepted ==
    IF Len(appended) > OcrWindow
    THEN SubSeq(appended, Len(appended) - OcrWindow + 1, Len(appended))
    ELSE appended

\* the text extracted from the frame of this step is above 0.8 in Jaccard
\* similarity to one of the extractions accepted last
TooSimilar ==
    \E i \in 1..Len(RecentlyAccepted) : Similar(RecentlyAccepted[i], data'.content.ocr)

\* the frame of this step put its text into context and into the window
Pushed ==
    /\ appended' = appended \o <<data'.content.ocr>>
    /\ session'.recent_ocr_texts = RecentlyAccepted'
    /\ session'.context.to =
          session.context.to + ScreenTagLen + TextLen(OcrTexts[data'.content.ocr])

\* the frame of this step changed neither the context nor the window
Dropped == session' = session /\ appended' = appended

\* the window holds the extractions accepted last, and no more than 5
WindowHoldsAccepted ==
    /\ Len(session.recent_ocr_texts) <= OcrWindow
    /\ session.recent_ocr_texts = RecentlyAccepted

\* C17, as claimed: a frame that decodes is appended to context and pushed
\* into the window if and only if its text is at most 0.8 similar to each of
\* the extractions accepted last, and is dropped otherwise
AppendedIffNotSimilar ==
    [][FrameIngested => IF TooSimilar THEN Dropped ELSE Pushed]_vars

\* C17: a frame whose extracted text is not blank is appended to context and
\* pushed into the window if and only if its text is at most 0.8 similar to
\* each of the (at most 5) extractions accepted last; a duplicate, like a
\* frame that does not decode or whose text is blank, changes neither context
\* nor window; the window holds the extractions accepted last and never more
\* than 5; a text that is not blank, submitted twice in succession, is
\* appended once
NonBlankAppendedIffNotSimilar ==
    /\ []WindowHoldsAccepted
    /\ [][last_call'.op = "ingest_frame" /\ received' = received + 1 =>
            IF ~data'.content.valid \/ OcrTexts[data'.content.ocr] = <<>> \/ TooSimilar
            THEN Dropped
            ELSE Pushed]_vars
    /\ [][FrameIngested /\ OcrTexts[data'.content.ocr] # <<>> =>
            /\ appended = <<>> => appended' = <<data'.content.ocr>>
            /\ data.type = "frame" /\ data.content = data'.content =>
                  appended' = appended]_vars

\* six pages were appended, the oldest left the window, and a frame with the
\* text appended last was dropped
DuplicateDropped ==
    /\ received = 7
    /\ Len(appended) = 6
    /\ Len(session.recent_ocr_texts) = 5
    /\ 1 \notin ingested
    /\ data.content.valid
    /\ data.content.ocr = appended[6]

\* C18: qa_pairs is never longer than questions_asked, which never holds more
\* than 5; questions_asked is one longer than qa_pairs exactly when
\* waiting_for_answer is set, and as long otherwise; the i-th entry of
\* qa_pairs carries the i-th question asked; a question is recorded only when
\* every question before it has its answer, and an answer is a transcription
\* that is not blank
QuestionsAndAnswersAlternate ==
    /\ [](LET asked == session.questions_asked
              pairs == session.qa_pairs
          IN /\ Len(pairs) <= Len(asked)
             /\ Len(asked) <= 5
             /\ session.waiting_for_answer <=> Len(asked) = Len(pairs) + 1
             /\ ~session.waiting_for_answer => Len(asked) = Len(pairs)
             /\ \A i \in 1..Len(pairs) : pairs[i].question = asked[i])
    /\ [][session'.questions_asked # session.questions_asked =>
            /\ Len(session.qa_pairs) = Len(session.questions_asked)
            /\ Len(session'.questions_asked) = Len(session.questions_asked) + 1
            /\ session'.qa_pairs = session.qa_pairs]_vars
    /\ [][session'.qa_pairs # session.qa_pairs =>
            /\ Len(session'.qa_pairs) = Len(session.qa_pairs) + 1
            /\ Utterances[session'.qa_pairs[Len(session'.qa_pairs)].answer] # <<>>
            /\ session'.questions_asked = session.questions_asked]_vars

\* the third question waits for its answer after two different questions were
\* answered
ThirdQuestionPending ==
    /\ Len(session.questions_asked) = 3
    /\ Len(session.qa_pairs) = 2
    /\ session.waiting_for_answer
    /\ session.qa_pairs[1].question = "Q1"
    /\ session.qa_pairs[2].question = "Q2"

\* the audio event of this tick gave a transcription that is not blank
HeardSpeech ==
    /\ data.type = "audio"
    /\ last_call.op = "transcribed"
    /\ Utterances[data.content.speech] # <<>>

\* C19: generate_question is called only in stage presentation on a tick that
\* dequeued an audio event; if that event gave a transcription that is not
\* blank, the call generates no question; so a question is recorded only on a
\* tick whose audio event gave no speech (a payload under 1000 bytes, a blank
\* transcription or a failed one), never on a tick that dequeued a frame or
\* nothing
QuestionOnlyAfterSilentAudio ==
    /\ [](pc = "ask" => data.type = "audio" /\ session.interview_stage = "presentation")
    /\ [][AskStep /\ HeardSpeech =>
            /\ session.last_speech_time = clock
            /\ session.has_spoken_recently
            /\ last_call'.ret = NoMsg
            /\ session'.questions_asked = session.questions_asked
            /\ outbox' = outbox]_vars
    /\ [][session'.questions_asked # session.questions_asked =>
            /\ AskStep
            /\ data.type = "audio"
            /\ \/ ~AudioAccepted(data.content)
               \/ last_call.op = "ingest_audio"
               \/ Utterances[data.content.speech] = <<>>]_vars

\* a question was generated on a tick whose audio payload was under 1000 bytes
QuestionAfterShortAudio ==
    /\ last_call.op = "generate"
    /\ last_call.ret # NoMsg
    /\ data.type = "audio"
    /\ data.content.size < MinAudioBytes
    /\ session.questions_asked # <<>>
    /\ session.last_question_time = clock

\* the "evaluation" messages delivered so far
EvaluationsSent == SelectSeq(outbox, LAMBDA m : m.type = "evaluation")

\* C20: while questions_asked is empty the worker does not call
\* update_evaluation: the five evaluation_scores are 0 and no evaluation
\* message has been sent
NoEvaluationBeforeQuestions ==
    /\ [](session.questions_asked = <<>> =>
            /\ \A f \in ScoreFields : session.evaluation_scores[f] = 0
            /\ DOMAIN session.evaluation_scores = ScoreFields
            /\ EvaluationsSent = <<>>)
    /\ [][last_call'.op = "evaluate" /\ last_call' # last_call =>
            session.questions_asked # <<>>]_vars

\* a tick that dequeued an event came to its evaluation check in the first
\* second of a minute, before any question, and ran no evaluation
CheckedBeforeQuestions ==
    /\ pc = "decay"
    /\ data # NoEvent
    /\ clock % 600 < 10
    /\ session.questions_asked = <<>>
    /\ last_call.op # "evaluate"

====
